---- MODULE Spec2Model ----
(***************************************************************************)
(* The Daily Ledger Service of backend/backend.js: three Express handlers  *)
(* (GET /api/days, POST /api/meals, PUT /api/days/reset) over the `Day`    *)
(* collection.  A handler runs synchronously from the arrival of a request *)
(* to its first `await`; the awaited store call then completes in one or   *)
(* more steps of the store, interleaved with the other requests in flight. *)
(*                                                                         *)
(* JSON values are modelled as tagged records, strings as sequences of     *)
(* one-character strings so that Number(), isNaN() and the String cast of  *)
(* the schema are computed rather than assumed.  The modelled alphabet is  *)
(* the digits, "-", "+", the blank and letters; numbers are integers.      *)
(***************************************************************************)
EXTENDS Integers, Sequences, FiniteSets, Bags, TLC

\* ------------------------------------------------------------------ bounds
\* Handler invocations that can be suspended at their await at once.
MaxInFlight == 2
\* Cap on the absolute value of a stored total (keeps the counters finite).
MaxTotal == 2

\* ------------------------------------------------------------- JSON values
Undef == [t |-> "undefined", n |-> 0, s |-> <<>>]
Num(k) == [t |-> "number", n |-> k, s |-> <<>>]
Bool(b) == [t |-> "boolean", n |-> IF b THEN 1 ELSE 0, s |-> <<>>]
Str(cs) == [t |-> "string", n |-> 0, s |-> cs]

Digits == {"0", "1", "2", "3", "4", "5", "6", "7", "8", "9"}

DigitVal(c) ==
    CASE c = "0" -> 0 [] c = "1" -> 1 [] c = "2" -> 2 [] c = "3" -> 3
      [] c = "4" -> 4 [] c = "5" -> 5 [] c = "6" -> 6 [] c = "7" -> 7
      [] c = "8" -> 8 [] c = "9" -> 9

DigitChar(k) ==
    CASE k = 0 -> "0" [] k = 1 -> "1" [] k = 2 -> "2" [] k = 3 -> "3"
      [] k = 4 -> "4" [] k = 5 -> "5" [] k = 6 -> "6" [] k = 7 -> "7"
      [] k = 8 -> "8" [] k = 9 -> "9"

\* UTF-16 code unit of a character of the modelled alphabet.
CharCode(c) ==
    CASE c = " " -> 32 [] c = "+" -> 43 [] c = "-" -> 45
      [] c \in Digits -> 48 + DigitVal(c)
      [] c = "a" -> 97 [] c = "e" -> 101 [] c = "f" -> 102 [] c = "l" -> 108
      [] c = "r" -> 114 [] c = "s" -> 115 [] c = "t" -> 116 [] c = "u" -> 117

NaN == [nan |-> TRUE, n |-> 0]
Finite(k) == [nan |-> FALSE, n |-> k]

RECURSIVE TrimStart(_)
TrimStart(cs) ==
    IF cs # <<>> /\ Head(cs) = " " THEN TrimStart(Tail(cs)) ELSE cs

RECURSIVE TrimEnd(_)
TrimEnd(cs) ==
    IF cs # <<>> /\ cs[Len(cs)] = " "
    THEN TrimEnd(SubSeq(cs, 1, Len(cs) - 1))
    ELSE cs

RECURSIVE DecimalValue(_)
DecimalValue(cs) ==
    IF cs = <<>> THEN 0
    ELSE 10 * DecimalValue(SubSeq(cs, 1, Len(cs) - 1)) + DigitVal(cs[Len(cs)])

AllDigits(cs) == cs # <<>> /\ \A i \in 1..Len(cs) : cs[i] \in Digits

\* Number(string): blank-trimmed; "" is 0; an optionally signed run of
\* digits is its value; anything else is NaN.
StringToNumber(cs) ==
    LET body == TrimEnd(TrimStart(cs)) IN
    IF body = <<>> THEN Finite(0)
    ELSE IF Head(body) = "-"
         THEN IF AllDigits(Tail(body)) THEN Finite(0 - DecimalValue(Tail(body))) ELSE NaN
    ELSE IF Head(body) = "+"
         THEN IF AllDigits(Tail(body)) THEN Finite(DecimalValue(Tail(body))) ELSE NaN
    ELSE IF AllDigits(body) THEN Finite(DecimalValue(body)) ELSE NaN

\* Number(v)
ToNumber(v) ==
    CASE v.t = "undefined" -> NaN
      [] v.t = "boolean" -> Finite(v.n)
      [] v.t = "number" -> Finite(v.n)
      [] v.t = "string" -> StringToNumber(v.s)

\* isNaN(v)
isNaN(v) == ToNumber(v).nan

\* !v is FALSE
Truthy(v) ==
    CASE v.t = "undefined" -> FALSE
      [] v.t = "boolean" -> v.n = 1
      [] v.t = "number" -> v.n # 0
      [] v.t = "string" -> v.s # <<>>

RECURSIVE NatToString(_)
NatToString(k) ==
    IF k < 10 THEN <<DigitChar(k)>>
    ELSE Append(NatToString(k \div 10), DigitChar(k % 10))

\* The schema's `type: String` cast of the value given for `date`.
CastString(v) ==
    CASE v.t = "string" -> v.s
      [] v.t = "number" -> IF v.n < 0 THEN <<"-">> \o NatToString(0 - v.n)
                           ELSE NatToString(v.n)
      [] v.t = "boolean" -> IF v.n = 1 THEN <<"t", "r", "u", "e">>
                            ELSE <<"f", "a", "l", "s", "e">>

\* Binary (code unit) order of two strings, as the store sorts them.
RECURSIVE StrLess(_, _)
StrLess(a, b) ==
    IF b = <<>> THEN FALSE
    ELSE IF a = <<>> THEN TRUE
    ELSE IF Head(a) = Head(b) THEN StrLess(Tail(a), Tail(b))
    ELSE CharCode(Head(a)) < CharCode(Head(b))


\* ---------------------------------------------------------- request bodies
\* req.body after express.json(): the three fields the handlers destructure.
Body(c, p, d) == [calories |-> c, protein |-> p, date |-> d]

D7 == <<"7">>
D12 == <<"1", "2">>
DIso == <<"2", "0", "2", "4", "-", "0", "1", "-", "1", "5">>

\* Absent, falsy and non-numeric values.
BadNumerics == {Undef, Num(0), Str(<<"1", "a">>)}
BadDates == {Undef, Str(<<>>), Str(DIso)}
GoodDates == {Str(D7), Num(7), Str(D12)}

AcceptedMeals ==
    { Body(Num(1), Num(1), Str(D7)),
      Body(Num(-1), Bool(TRUE), Num(7)),
      Body(Str(<<" ", "2">>), Str(<<"+", "1">>), Str(D12)) }

ScenarioMeals ==
    { Body(Num(500), Num(30), Str(DIso)), Body(Num(200), Num(10), Str(DIso)) }

FaultyMeals ==
    {Body(c, Num(1), Str(D7)) : c \in BadNumerics}
        \cup {Body(Num(1), p, Str(D7)) : p \in BadNumerics}
        \cup {Body(Num(1), Num(1), d) : d \in BadDates}

MealBodies == AcceptedMeals \cup ScenarioMeals \cup FaultyMeals
ResetBodies == {Body(Undef, Undef, d) : d \in GoodDates \cup BadDates}
NoBody == Body(Undef, Undef, Undef)

\* ------------------------------------------------------------------- state
VARIABLES
    Day,        \* the collection: a sequence of documents in insertion order
    pending,    \* the bag of store calls that handler invocations await
    request,    \* the request the latest step dispatched to a handler, if any
    response,   \* the response the latest step sent, if any
    ledger,     \* per date, the increments of the Add-meal requests answered
                \* 200 since the date's last Reset answered 200
    lastReset   \* the date of the request answered last, when that was a
                \* Reset answered 200 (<<>> otherwise), and whether the
                \* request answered before it was such a Reset of that date

vars == <<Day, pending, request, response, ledger, lastReset>>

\* A store call awaited by a handler invocation: what the closure holds.
Call(kind, today, calories, protein, raced) ==
    [kind |-> kind, phase |-> "query", today |-> today, calories |-> calories,
     protein |-> protein, raced |-> raced]
NoRequest == [route |-> "none", body |-> NoBody]
NoResponse == [route |-> "none", today |-> <<>>, status |-> 0, body |-> <<>>, message |-> ""]

Keys == {CastString(d) : d \in GoodDates}
NoReset == [today |-> <<>>, twice |-> FALSE]
NoEntry == [seen |-> FALSE, calories |-> 0, protein |-> 0, raced |-> 0]

\* daySchema: the document the upsert builds from the filter, with the
\* schema defaults that setDefaultsOnInsert applies.
daySchema(date) == [date |-> date, totalCalories |-> 0, totalProtein |-> 0]

Init ==
    /\ Day = <<>>
    /\ pending = EmptyBag
    /\ request = NoRequest
    /\ response = NoResponse
    /\ ledger = [k \in Keys |-> NoEntry]
    /\ lastReset = NoReset

\* A request is dispatched while fewer than MaxInFlight calls are awaited.
Free == BagCardinality(pending) < MaxInFlight

\* The awaited call `op` is settled, or replaced by its next phase.
Settle(op) == pending' = pending (-) SetToBag({op})
Advance(op, phase) ==
    pending' = (pending (-) SetToBag({op})) (+) SetToBag({[op EXCEPT !.phase = phase]})

Send(route, today, status, body, message) ==
    /\ response' = [route |-> route, today |-> today, status |-> status,
                    body |-> body, message |-> message]
    /\ lastReset' = IF route = "PUT /api/days/reset" /\ status = 200
                    THEN [today |-> today, twice |-> lastReset.today = today]
                    ELSE NoReset

\* ---------------------------------------------------------------- handlers
\* app.get('/api/days'): issues Day.find().sort({date: -1}) and awaits it.
GetDays ==
    /\ Free
    /\ pending' = pending (+) SetToBag({Call("find", <<>>, 0, 0, FALSE)})
    /\ request' = [route |-> "GET /api/days", body |-> NoBody]
    /\ response' = NoResponse
    /\ UNCHANGED <<Day, ledger, lastReset>>

\* Variant: the validation forgets the checks of protein.
InvalidMeal_NoProteinCheck(body) ==
    \/ ~Truthy(body.calories) \/ ~Truthy(body.date)
    \/ isNaN(body.calories) \/ isNaN(body.date)

\* The `if` of POST /api/meals that answers 400.
InvalidMeal(body) ==
    \/ ~Truthy(body.calories) \/ ~Truthy(body.protein) \/ ~Truthy(body.date)
    \/ isNaN(body.calories) \/ isNaN(body.protein) \/ isNaN(body.date)

\* The `if` of PUT /api/days/reset that answers 400.
InvalidReset(body) == ~Truthy(body.date) \/ isNaN(body.date)

\* Add-meal calls of a date that are awaiting the store.
MealsInFlight(today) ==
    {op \in BagToSet(pending) : op.kind = "meal" /\ op.today = today}

\* The awaited calls with those of `ops` marked as having run alongside
\* another Add-meal call of their date.
MarkRaced(ops) ==
    LET mark(op) == IF op \in ops THEN [op EXCEPT !.raced = TRUE] ELSE op
        marked == {mark(op) : op \in BagToSet(pending)}
    IN [m \in marked |->
           LET from == {op \in BagToSet(pending) : mark(op) = m}
               first == CHOOSE op \in from : TRUE
           IN IF Cardinality(from) = 1 THEN pending[first]
              ELSE pending[first] + pending[CHOOSE op \in from : op # first]]

\* app.post('/api/meals') up to its await: validation, then the
\* findOneAndUpdate call with filter {date: today} and the $inc amounts.
PostMeals(body) ==
    /\ Free
    /\ request' = [route |-> "POST /api/meals", body |-> body]
    /\ IF InvalidMeal(body)
       THEN /\ Send("POST /api/meals", <<>>, 400, <<>>,
                    "Invalid input. Please provide numeric values for calories and protein.")
            /\ UNCHANGED <<Day, pending, ledger>>
       ELSE LET today == CastString(body.date)
                others == MealsInFlight(today)
            IN /\ pending' = MarkRaced(others) (+) SetToBag({
                       Call("meal", today, ToNumber(body.calories).n,
                            ToNumber(body.protein).n, others # {})})
               /\ response' = NoResponse
               /\ UNCHANGED <<Day, ledger, lastReset>>

\* app.put('/api/days/reset') up to its await.
PutReset(body) ==
    /\ Free
    /\ request' = [route |-> "PUT /api/days/reset", body |-> body]
    /\ IF InvalidReset(body)
       THEN /\ Send("PUT /api/days/reset", <<>>, 400, <<>>,
                    "Invalid input. Please provide a valid date.")
            /\ UNCHANGED <<Day, pending, ledger>>
       ELSE /\ pending' = pending (+) SetToBag({
                   Call("reset", CastString(body.date), 0, 0, FALSE)})
            /\ response' = NoResponse
            /\ UNCHANGED <<Day, ledger, lastReset>>

\* --------------------------------------------------------------- the store
Route(op) ==
    CASE op.kind = "find" -> "GET /api/days"
      [] op.kind = "meal" -> "POST /api/meals"
      [] op.kind = "reset" -> "PUT /api/days/reset"

\* Positions of the documents the filter {date: today} matches.
Matching(today) == {i \in DOMAIN Day : Day[i].date = today}

\* findOne picks the first match in natural order.
FirstMatch(today) == CHOOSE i \in Matching(today) : \A j \in Matching(today) : i <= j

\* Variant: the meal's amounts are set rather than added.
ApplyUpdate_Set(doc, op) ==
    IF op.kind = "meal"
    THEN [doc EXCEPT !.totalCalories = op.calories, !.totalProtein = op.protein]
    ELSE [doc EXCEPT !.totalCalories = 0, !.totalProtein = 0]

\* Variant: the reset zeroes the calories and forgets the protein.
ApplyUpdate_ResetCaloriesOnly(doc, op) ==
    IF op.kind = "meal"
    THEN [doc EXCEPT !.totalCalories = @ + op.calories,
                     !.totalProtein = @ + op.protein]
    ELSE [doc EXCEPT !.totalCalories = 0]

\* The update document of the call applied to one document: $inc of both
\* totals for a meal, both totals set to 0 for a reset.
ApplyUpdate(doc, op) ==
    IF op.kind = "meal"
    THEN [doc EXCEPT !.totalCalories = @ + op.calories,
                     !.totalProtein = @ + op.protein]
    ELSE [doc EXCEPT !.totalCalories = 0, !.totalProtein = 0]

\* Variant: the schema declares no unique index on date.
UniqueIndexAllows_NoIndex(today) == TRUE

\* `unique: true` on date: the index refuses a second document of a date.
UniqueIndexAllows(today) == Matching(today) = {}

InRange(doc) ==
    /\ doc.totalCalories \in (0 - MaxTotal)..MaxTotal
    /\ doc.totalProtein \in (0 - MaxTotal)..MaxTotal

\* The ledger entry of a date after a request on it was answered 200.
Credit(entry, op) ==
    IF op.kind = "meal"
    THEN [seen |-> TRUE, calories |-> entry.calories + op.calories,
          protein |-> entry.protein + op.protein,
          raced |-> IF op.raced /\ entry.raced < 2 THEN entry.raced + 1 ELSE entry.raced]
    ELSE [seen |-> TRUE, calories |-> 0, protein |-> 0, raced |-> 0]

\* Variant: the sort is ascending, {date: 1}.
SortedByDateAsc(docs) ==
    { s \in { [i \in DOMAIN docs |-> docs[p[i]]] : p \in Permutations(DOMAIN docs) } :
        \A i, j \in DOMAIN s : i < j => ~StrLess(s[j].date, s[i].date) }

\* The sort {date: -1} of the documents: every order of them in which no
\* document precedes one of a greater date.
SortedByDateDesc(docs) ==
    { s \in { [i \in DOMAIN docs |-> docs[p[i]]] : p \in Permutations(DOMAIN docs) } :
        \A i, j \in DOMAIN s : i < j => ~StrLess(s[i].date, s[j].date) }

\* Day.find().sort(...) resolves; the handler answers with the array.
DayFind(op) ==
    /\ op.kind = "find"
    /\ \E days \in SortedByDateDesc(Day) :
           Send("GET /api/days", <<>>, 200, days, "")
    /\ Settle(op)
    /\ request' = NoRequest
    /\ UNCHANGED <<Day, ledger>>

\* findOneAndUpdate finds a document of the date and updates it in place,
\* atomically; {new: true} resolves to the updated document.
FindOneAndUpdateMatch(op) ==
    /\ op.kind \in {"meal", "reset"}
    /\ op.phase = "query"
    /\ Matching(op.today) # {}
    /\ LET i == FirstMatch(op.today)
           dayEntry == ApplyUpdate(Day[i], op)
       IN /\ InRange(dayEntry)
          /\ Day' = [Day EXCEPT ![i] = dayEntry]
          /\ Send(Route(op), op.today, 200, <<dayEntry>>, "")
    /\ ledger' = [ledger EXCEPT ![op.today] = Credit(@, op)]
    /\ Settle(op)
    /\ request' = NoRequest

\* findOneAndUpdate finds no document of the date: {upsert: true} makes it
\* go on to insert one.
FindOneAndUpdateMiss(op) ==
    /\ op.kind \in {"meal", "reset"}
    /\ op.phase = "query"
    /\ Matching(op.today) = {}
    /\ Advance(op, "insert")
    /\ request' = NoRequest
    /\ response' = NoResponse
    /\ UNCHANGED <<Day, ledger, lastReset>>

\* Variant: a read-then-write upsert, which writes the new document over
\* whatever another call has stored for the date since the read.
FindOneAndUpdateInsert_Overwrite(op) ==
    /\ op.phase = "insert"
    /\ LET dayEntry == ApplyUpdate(daySchema(op.today), op)
       IN /\ InRange(dayEntry)
          /\ Day' = IF Matching(op.today) = {} THEN Append(Day, dayEntry)
                    ELSE [Day EXCEPT ![FirstMatch(op.today)] = dayEntry]
          /\ Send(Route(op), op.today, 200, <<dayEntry>>, "")
    /\ ledger' = [ledger EXCEPT ![op.today] = Credit(@, op)]
    /\ Settle(op)
    /\ request' = NoRequest

\* Variant: the upsert inserts the schema defaults and drops the update.
FindOneAndUpdateInsert_DefaultsOnly(op) ==
    /\ op.phase = "insert"
    /\ UniqueIndexAllows(op.today)
    /\ LET dayEntry == daySchema(op.today)
       IN /\ Day' = Append(Day, dayEntry)
          /\ Send(Route(op), op.today, 200, <<dayEntry>>, "")
    /\ ledger' = [ledger EXCEPT ![op.today] = Credit(@, op)]
    /\ Settle(op)
    /\ request' = NoRequest

\* The upsert inserts the new document, the update applied to the schema
\* defaults, unless the unique index refuses it.
FindOneAndUpdateInsert(op) ==
    /\ op.phase = "insert"
    /\ UniqueIndexAllows(op.today)
    /\ LET dayEntry == ApplyUpdate(daySchema(op.today), op)
       IN /\ InRange(dayEntry)
          /\ Day' = Append(Day, dayEntry)
          /\ Send(Route(op), op.today, 200, <<dayEntry>>, "")
    /\ ledger' = [ledger EXCEPT ![op.today] = Credit(@, op)]
    /\ Settle(op)
    /\ request' = NoRequest

\* The insert hits a duplicate key (another upsert of the date won the
\* race) and the store runs the operation again, now as an update.
FindOneAndUpdateRetry(op) ==
    /\ op.phase = "insert"
    /\ ~UniqueIndexAllows(op.today)
    /\ Advance(op, "query")
    /\ request' = NoRequest
    /\ response' = NoResponse
    /\ UNCHANGED <<Day, ledger, lastReset>>

ErrorMessage(op) ==
    CASE op.kind = "find" -> "Server Error: Could not fetch data."
      [] op.kind = "meal" -> "Server Error: Could not save data."
      [] op.kind = "reset" -> "Server Error: Could not reset data."

\* Variant: the handler has no catch, so a rejected call ends the request
\* without any response.
StoreError_Unhandled(op) ==
    /\ op.kind \in {"find", "meal", "reset"}
    /\ Settle(op)
    /\ request' = NoRequest
    /\ response' = NoResponse
    /\ UNCHANGED <<Day, ledger, lastReset>>

\* The awaited store call rejects (store unreachable, or an error of the
\* operation such as a duplicate key that is not retried): the handler's
\* catch answers 500.
StoreError(op) ==
    /\ op.kind \in {"find", "meal", "reset"}
    /\ Send(Route(op), op.today, 500, <<>>, ErrorMessage(op))
    /\ Settle(op)
    /\ request' = NoRequest
    /\ UNCHANGED <<Day, ledger>>

Next ==
    \/ GetDays
    \/ \E body \in MealBodies : PostMeals(body)
    \/ \E body \in ResetBodies : PutReset(body)
    \/ \E op \in BagToSet(pending) : DayFind(op)
    \/ \E op \in BagToSet(pending) : FindOneAndUpdateMatch(op)
    \/ \E op \in BagToSet(pending) : FindOneAndUpdateMiss(op)
    \/ \E op \in BagToSet(pending) : FindOneAndUpdateInsert(op)
    \/ \E op \in BagToSet(pending) : FindOneAndUpdateRetry(op)
    \/ \E op \in BagToSet(pending) : StoreError(op)

Spec == Init /\ [][Next]_vars


\* ------------------------------------------------------------ properties
\* The step settles the awaited call `op` with a response on its route.
Settled(op) ==
    /\ pending' = pending (-) SetToBag({op})
    /\ response'.route = Route(op)
    /\ response'.today = op.today

Answered200(op) == Settled(op) /\ response'.status = 200

Totals(doc) == <<doc.totalCalories, doc.totalProtein>>

\* C1: once every Add-meal call of a date d has completed, the record of d
\* exists and its totals are the sums of the calories and of the protein of
\* the Add-meal requests of d answered 200 (since the last Reset of d
\* answered 200), whatever the interleaving of the calls.
C1_NoLostUpdates ==
    \A d \in Keys :
        (MealsInFlight(d) = {} /\ ledger[d].seen) =>
            /\ Matching(d) # {}
            /\ \A i \in Matching(d) :
                   Totals(Day[i]) = <<ledger[d].calories, ledger[d].protein>>

\* Two Add-meal calls of one date that were in flight together have both
\* been answered 200, nothing is in flight, and the record holds their sum.
C1_Witness ==
    /\ pending = EmptyBag
    /\ ledger[D7].raced = 2
    /\ ledger[D7].calories = 2
    /\ Matching(D7) # {}
    /\ Day[FirstMatch(D7)].totalCalories = 2

\* C3: the collection never holds two documents of the same date.
C3_Uniqueness ==
    \A i, j \in DOMAIN Day : Day[i].date = Day[j].date => i = j

\* An upsert that found no document of its date is about to insert while
\* a document of that date has meanwhile been inserted by another call.
C3_Witness ==
    \E op \in BagToSet(pending) :
        /\ op.phase = "insert"
        /\ Matching(op.today) # {}
        /\ Len(Day) = 2

\* C8 (as claimed): every stored total is non-negative, negative accepted
\* amounts included.
C8_NonNegativeTotals ==
    \A i \in DOMAIN Day : Day[i].totalCalories >= 0 /\ Day[i].totalProtein >= 0


\* The step dispatches an Add-meal or Reset request that passes validation.
Accepted(route) ==
    /\ request'.route = route
    /\ response' = NoResponse

\* The call the step has added to the awaited ones.
Issued(op) == pending' = MarkRaced(MealsInFlight(op.today)) (+) SetToBag({op})

\* C2: an accepted Add-meal(c, p, d) is issued as an increment by the
\* numbers c and p on date d; when it is answered 200 on an existing record
\* of d with totals (C, P), that record then holds (C+c, P+p), the response
\* is that updated record, and every other record is unchanged.
C2_IncrementCorrect ==
    [][ /\ Accepted("POST /api/meals") =>
            \E op \in BagToSet(pending') :
                /\ Issued(op)
                /\ op.kind = "meal"
                /\ request'.body.date.t = "string" => op.today = request'.body.date.s
                /\ request'.body.calories.t = "number" => op.calories = request'.body.calories.n
                /\ request'.body.protein.t = "number" => op.protein = request'.body.protein.n
        /\ \A op \in BagToSet(pending) :
            (op.kind = "meal" /\ Answered200(op) /\ Matching(op.today) # {}) =>
                LET i == FirstMatch(op.today) IN
                /\ DOMAIN Day' = DOMAIN Day
                /\ Day'[i].date = op.today
                /\ Day'[i].totalCalories = Day[i].totalCalories + op.calories
                /\ Day'[i].totalProtein = Day[i].totalProtein + op.protein
                /\ response'.body = <<Day'[i]>>
                /\ \A j \in DOMAIN Day : j # i => Day'[j] = Day[j]
      ]_vars

\* An Add-meal was just answered with the record of "7" raised to 2
\* calories and 2 protein (two increments of 1) beside a record of "12".
C2_Witness ==
    /\ response.route = "POST /api/meals"
    /\ response.status = 200
    /\ response.body = <<[date |-> D7, totalCalories |-> 2, totalProtein |-> 2]>>
    /\ Len(Day) = 2
    /\ \E i \in DOMAIN Day : Day[i] = [date |-> D12, totalCalories |-> 2, totalProtein |-> 1]

\* The fields of a body that the claim of C5 calls unacceptable: absent,
\* falsy (0, the empty string, false) or not coercible to a number.
Unacceptable(v) ==
    \/ v = Undef \/ v = Num(0) \/ v = Str(<<>>) \/ v = Bool(FALSE)
    \/ (v.t = "string" /\ StringToNumber(v.s).nan)

C6_UpsertOnFirstWrite ==
    [][ \A op \in BagToSet(pending) :
            (op.kind \in {"meal", "reset"} /\ Answered200(op) /\ Matching(op.today) = {}) =>
                /\ Len(Day') = Len(Day) + 1
                /\ \A i \in DOMAIN Day : Day'[i] = Day[i]
                /\ Day'[Len(Day')] =
                       [date |-> op.today,
                        totalCalories |-> IF op.kind = "meal" THEN op.calories ELSE 0,
                        totalProtein |-> IF op.kind = "meal" THEN op.protein ELSE 0]
                /\ response'.body = <<Day'[Len(Day')]>>
      ]_vars

\* An Add-meal of (2, 1) on "12" was just answered with the record of
\* "12", the last one inserted, holding exactly (2, 1), beside a record of
\* "7" with non-zero calories.
C6_Witness ==
    /\ response.route = "POST /api/meals"
    /\ response.status = 200
    /\ Len(Day) = 2
    /\ Day[2] = [date |-> D12, totalCalories |-> 2, totalProtein |-> 1]
    /\ response.body = <<Day[2]>>
    /\ Day[1].date = D7
    /\ Day[1].totalCalories # 0

\* C7: a Reset(d) answered 200 returns the record of d with both totals 0;
\* when the request answered just before it was a Reset(d) answered 200 too,
\* the second leaves the collection exactly as the first left it.
C7_ResetIdempotent ==
    [][ \A op \in BagToSet(pending) :
            (op.kind = "reset" /\ Answered200(op)) =>
                /\ response'.body =
                       <<[date |-> op.today, totalCalories |-> 0, totalProtein |-> 0]>>
                /\ \E i \in DOMAIN Day' : Day'[i] = response'.body[1]
                /\ lastReset.today = op.today => Day' = Day
      ]_vars

\* Two Resets of "7" were answered 200 in succession, with a record of
\* "12" holding non-zero totals beside it.
C7_Witness ==
    /\ lastReset = [today |-> D7, twice |-> TRUE]
    /\ response.route = "PUT /api/days/reset"
    /\ response.status = 200
    /\ \E i \in DOMAIN Day : Day[i] = [date |-> D12, totalCalories |-> 2, totalProtein |-> 1]

\* Number of positions of a sequence of documents that hold `doc`.
Count(docs, doc) == Cardinality({i \in DOMAIN docs : docs[i] = doc})

\* C9: a List answered 200 returns the documents of the collection, each as
\* many times as the collection holds it, in strictly descending order of
\* date, and leaves the collection unchanged.
C9_ListAllDescending ==
    [][ \A op \in BagToSet(pending) :
            (op.kind = "find" /\ Answered200(op)) =>
                LET days == response'.body IN
                /\ Day' = Day
                /\ Len(days) = Len(Day)
                /\ \A i \in DOMAIN Day : Count(days, Day[i]) = Count(Day, Day[i])
                /\ \A i, j \in DOMAIN days : i < j => StrLess(days[j].date, days[i].date)
      ]_vars

\* A List was just answered with two records in an order that differs from
\* their insertion order: "7" before "12".
C9_Witness ==
    /\ response.route = "GET /api/days"
    /\ response.status = 200
    /\ Len(response.body) = 2
    /\ response.body[1].date = D7
    /\ response.body[2].date = D12
    /\ Day[1].date = D12

Scenario(c, p) == [date |-> DIso, totalCalories |-> c, totalProtein |-> p]

C4_Scenario ==
    [][ /\ ( /\ pending = EmptyBag
             /\ request'.route = "POST /api/meals"
             /\ \/ Day = <<>> /\ request'.body = Body(Num(500), Num(30), Str(DIso))
                \/ Day = <<Scenario(500, 30)>> /\ request'.body = Body(Num(200), Num(10), Str(DIso)) ) =>
               (response'.status # 400 /\ pending' # EmptyBag)
        /\ ( /\ pending = EmptyBag
             /\ request'.route = "PUT /api/days/reset"
             /\ Day = <<Scenario(700, 40)>>
             /\ request'.body.date = Str(DIso) ) =>
               (response'.status # 400 /\ pending' # EmptyBag)
        /\ \A op \in BagToSet(pending) :
               (Answered200(op) /\ pending' = EmptyBag /\ op.today = DIso) =>
                   /\ (op.kind = "meal" /\ Day = <<>> /\ op.calories = 500 /\ op.protein = 30)
                          => response'.body = <<Scenario(500, 30)>>
                   /\ (op.kind = "meal" /\ Day = <<Scenario(500, 30)>>
                          /\ op.calories = 200 /\ op.protein = 10)
                          => response'.body = <<Scenario(700, 40)>>
                   /\ (op.kind = "reset" /\ Day = <<Scenario(700, 40)>>)
                          => response'.body = <<Scenario(0, 0)>>
        /\ \A op \in BagToSet(pending) :
               (op.kind = "find" /\ Answered200(op) /\ Day = <<Scenario(0, 0)>>) =>
                   response'.body = <<Scenario(0, 0)>>
      ]_vars

====
